---------------------------- MODULE Spec2Model ----------------------------
(***************************************************************************)
(* A model of the JIRA credential-forwarding proxy of src/api/server.js    *)
(* (the second, HR-enabled copy of the server, lines 530-1218).            *)
(*                                                                         *)
(* Strings are sequences of lexical atoms: an atom is a maximal            *)
(* alphanumeric word ("https", "rest", "KEY") or one punctuation or        *)
(* white-space character ("/", ":", " ").  The strings the time-spent      *)
(* pattern reads are written one character per atom.  JavaScript values    *)
(* are tagged records, so that undefined, null, "" and objects keep the    *)
(* truthiness and the property access that the handlers depend on.         *)
(***************************************************************************)
EXTENDS Integers, Sequences, FiniteSets, TLC

VARIABLES
    env,      \* process.env: the HR_JIRA_* settings, fixed at start-up
    pc,       \* "idle" | "awaiting" (suspended in await fetch) | "done"
    req,      \* the inbound request being handled
    handler,  \* the route handler that took the request
    call,     \* the upstream call issued for the request, or NoCall
    calls,    \* how many upstream calls were issued for the request
    reply,    \* what came back from upstream, or NoReply
    res,      \* the HTTP response sent to the client, or NoRes
    sent,     \* how many responses were written for the request
    flights   \* the requests in flight at once, when several are followed

vars == <<env, pc, req, handler, call, calls, reply, res, sent, flights>>

---------------------------------------------------------------------------
(* JavaScript values *)

Undef == [t |-> "undefined"]
Null == [t |-> "null"]
Str(s) == [t |-> "string", s |-> s]
Num(n) == [t |-> "number", n |-> n]
Bool(b) == [t |-> "boolean", b |-> b]
Arr(a) == [t |-> "array", a |-> a]
Obj(f) == [t |-> "object", f |-> f]
EmptyObj == Obj([k \in {} |-> Undef])

\* ToBoolean, as `!x` and `x || y` apply it
Truthy(v) ==
    CASE v.t = "undefined" -> FALSE
      [] v.t = "null" -> FALSE
      [] v.t = "string" -> v.s # <<>>
      [] v.t = "number" -> v.n # 0
      [] v.t = "boolean" -> v.b
      [] OTHER -> TRUE

\* a || b
Or(a, b) == IF Truthy(a) THEN a ELSE b

\* v.k throws a TypeError on undefined and null
Nullish(v) == v.t \in {"undefined", "null"}

\* v.k for a value that is not nullish
Get(v, k) == IF v.t = "object" /\ k \in DOMAIN v.f THEN v.f[k] ELSE Undef

\* v?.k
OptGet(v, k) == IF Nullish(v) THEN Undef ELSE Get(v, k)

\* what JSON.stringify keeps of a value: members that are undefined are
\* dropped from objects (the handlers build no arrays holding undefined)
RECURSIVE Stringified(_)
Stringified(v) ==
    CASE v.t = "object" ->
            LET keep == {k \in DOMAIN v.f : v.f[k].t # "undefined"}
            IN  Obj([k \in keep |-> Stringified(v.f[k])])
      [] v.t = "array" -> Arr([i \in DOMAIN v.a |-> Stringified(v.a[i])])
      [] OTHER -> v

---------------------------------------------------------------------------
(* Strings *)

IsSpace(a) == a \in {" ", "\t"}

RECURSIVE TrimLeft(_)
TrimLeft(s) == IF s # <<>> /\ IsSpace(Head(s)) THEN TrimLeft(Tail(s)) ELSE s

RECURSIVE TrimRight(_)
TrimRight(s) ==
    IF s # <<>> /\ IsSpace(s[Len(s)]) THEN TrimRight(SubSeq(s, 1, Len(s) - 1))
    ELSE s

\* String.prototype.trim
Trim(s) == TrimRight(TrimLeft(s))

\* s.replace(/\/+$/, "")
RECURSIVE StripTrailingSlashes(_)
StripTrailingSlashes(s) ==
    IF s # <<>> /\ s[Len(s)] = "/"
    THEN StripTrailingSlashes(SubSeq(s, 1, Len(s) - 1))
    ELSE s

\* /^https?:\/\//i.test(s)
HasScheme(s) ==
    /\ Len(s) >= 4
    /\ s[1] \in {"http", "https", "HTTP", "HTTPS", "Http", "Https"}
    /\ s[2] = ":"
    /\ s[3] = "/"
    /\ s[4] = "/"

HTTPS == <<"https", ":", "/", "/">>

\* String(raw) of the values a credential field can hold
StringOf(v) ==
    CASE v.t = "string" -> v.s
      [] v.t = "number" -> <<ToString(v.n)>>
      [] OTHER -> <<"[object Object]">>

\* normalizeServerUrl(raw): null, or the URL with a scheme and without
\* trailing slashes
normalizeServerUrl(raw) ==
    IF ~Truthy(raw) THEN Null
    ELSE LET url == Trim(StringOf(raw))
         IN  IF url = <<>> THEN Null
             ELSE Str(StripTrailingSlashes(
                        IF HasScheme(url) THEN url ELSE HTTPS \o url))


---------------------------------------------------------------------------
(* JSON.parse / response.json() over the atoms of a text *)

NumberAtoms == {"0", "1", "5"}
NumOf(a) == CASE a = "0" -> 0 [] a = "1" -> 1 [] OTHER -> 5

MinOf(S) == CHOOSE x \in S : \A y \in S : x <= y

\* the first position at or after i that holds no white space
SkipWs(t, i) ==
    LET stops == {j \in i..Len(t) : ~IsSpace(t[j])}
    IN  IF stops = {} THEN Len(t) + 1 ELSE MinOf(stops)

ParseFail == [ok |-> FALSE, v |-> Undef, n |-> 0]
Parsed(v, n) == [ok |-> TRUE, v |-> v, n |-> n]

RECURSIVE ParseValue(_, _)
RECURSIVE ParseElements(_, _, _)
RECURSIVE ParseMembers(_, _, _)

ParseValue(t, i0) ==
    LET i == SkipWs(t, i0)
    IN  IF i > Len(t) THEN ParseFail
        ELSE CASE t[i] = "null" -> Parsed(Null, i + 1)
               [] t[i] = "true" -> Parsed(Bool(TRUE), i + 1)
               [] t[i] = "false" -> Parsed(Bool(FALSE), i + 1)
               [] t[i] \in NumberAtoms -> Parsed(Num(NumOf(t[i])), i + 1)
               [] t[i] = "\"" ->
                    LET closes == {j \in (i + 1)..Len(t) : t[j] = "\""}
                    IN  IF closes = {} THEN ParseFail
                        ELSE Parsed(Str(SubSeq(t, i + 1, MinOf(closes) - 1)),
                                    MinOf(closes) + 1)
               [] t[i] = "[" ->
                    LET k == SkipWs(t, i + 1)
                    IN  IF k <= Len(t) /\ t[k] = "]"
                        THEN Parsed(Arr(<<>>), k + 1)
                        ELSE ParseElements(t, i + 1, <<>>)
               [] t[i] = "{" ->
                    LET k == SkipWs(t, i + 1)
                    IN  IF k <= Len(t) /\ t[k] = "}"
                        THEN Parsed(EmptyObj, k + 1)
                        ELSE ParseMembers(t, i + 1, [x \in {} |-> Undef])
               [] OTHER -> ParseFail

ParseElements(t, i, acc) ==
    LET r == ParseValue(t, i)
        k == SkipWs(t, r.n)
    IN  IF ~r.ok \/ k > Len(t) THEN ParseFail
        ELSE IF t[k] = "," THEN ParseElements(t, k + 1, Append(acc, r.v))
        ELSE IF t[k] = "]" THEN Parsed(Arr(Append(acc, r.v)), k + 1)
        ELSE ParseFail

ParseMembers(t, i, acc) ==
    LET key == ParseValue(t, i)
        c == SkipWs(t, key.n)
    IN  IF ~key.ok \/ key.v.t # "string" \/ Len(key.v.s) # 1 \/ c > Len(t)
        THEN ParseFail
        ELSE IF t[c] # ":" THEN ParseFail
        ELSE LET r == ParseValue(t, c + 1)
                 k == SkipWs(t, r.n)
                 more == (key.v.s[1] :> r.v) @@ acc
             IN  IF ~r.ok \/ k > Len(t) THEN ParseFail
                 ELSE IF t[k] = "," THEN ParseMembers(t, k + 1, more)
                 ELSE IF t[k] = "}" THEN Parsed(Obj(more), k + 1)
                 ELSE ParseFail

\* JSON.parse(text): [ok |-> FALSE] is the SyntaxError it throws
JSONParse(t) ==
    LET r == ParseValue(t, 1)
    IN  IF r.ok /\ SkipWs(t, r.n) > Len(t)
        THEN [ok |-> TRUE, v |-> r.v]
        ELSE [ok |-> FALSE, v |-> Undef]

---------------------------------------------------------------------------
(* Requests, routes and credentials *)

\* a text that the model never looks into
Text(a) == Str(<<a>>)

JiraPrefix == <<"/", "jira">>
HealthPath == <<"/", "health">>
TestConnectionPath == <<"/", "jira", "/", "test-connection">>
HrGetTasksPath == <<"/", "jira", "/", "hr", "/", "get-tasks">>
GetTasksPath == <<"/", "jira", "/", "get-tasks">>
HrGetProjectsPath == <<"/", "jira", "/", "hr", "/", "get-projects">>
GetProjectsPath == <<"/", "jira", "/", "get-projects">>
AddWorklogPath == <<"/", "jira", "/", "add-worklog">>
GetWorklogsPath == <<"/", "jira", "/", "get-worklogs">>
RestApiPrefix == <<"/", "jira", "/", "rest", "/", "api", "/">>

IsPrefix(p, s) == Len(p) <= Len(s) /\ SubSeq(s, 1, Len(p)) = p

\* encodeURIComponent, atom by atom
UriEncoded(s) ==
    [i \in DOMAIN s |->
        CASE s[i] = ":" -> "%3A"
          [] s[i] = "/" -> "%2F"
          [] s[i] = " " -> "%20"
          [] s[i] = "=" -> "%3D"
          [] OTHER -> s[i]]

\* the query string a client sends to carry the parameters req.query holds
RECURSIVE QueryPairs(_, _, _)
QueryPairs(q, keys, first) ==
    IF keys = <<>> THEN <<>>
    ELSE IF Head(keys) \in DOMAIN q.f
         THEN <<IF first THEN "?" ELSE "&", Head(keys), "=">>
                \o UriEncoded(StringOf(q.f[Head(keys)]))
                \o QueryPairs(q, Tail(keys), FALSE)
         ELSE QueryPairs(q, Tail(keys), first)

QueryKeys == <<"serverUrl", "username", "apiToken", "expand">>

\* req.originalUrl: the path and the query string as received
originalUrl(r) == r.path \o QueryPairs(r.query, QueryKeys, TRUE)

\* the routes with the passthrough registered first, on every /jira/ path
Route_PassthroughFirst(r) ==
    CASE IsPrefix(JiraPrefix \o <<"/">>, r.path) -> "generic"
      [] r.method = "GET" /\ r.path = HealthPath -> "health"
      [] OTHER -> "none"

\* the handler Express hands the request to: the first registered route
\* whose method and path match
Route(r) ==
    CASE r.method = "GET" /\ r.path = HealthPath -> "health"
      [] r.method = "POST" /\ r.path = TestConnectionPath -> "test-connection"
      [] r.method = "POST" /\ r.path = HrGetTasksPath -> "hr/get-tasks"
      [] r.method = "POST" /\ r.path = GetTasksPath -> "get-tasks"
      [] r.method = "POST" /\ r.path = HrGetProjectsPath -> "hr/get-projects"
      [] r.method = "POST" /\ r.path = GetProjectsPath -> "get-projects"
      [] r.method = "POST" /\ r.path = AddWorklogPath -> "add-worklog"
      [] r.method = "POST" /\ r.path = GetWorklogsPath -> "get-worklogs"
      [] IsPrefix(RestApiPrefix, r.path) -> "generic"
      [] OTHER -> "none"

getHRCredentials(e) ==
    [serverUrl |-> e.HR_JIRA_SERVER_URL,
     username |-> e.HR_JIRA_USERNAME,
     apiToken |-> e.HR_JIRA_API_TOKEN]

\* extractCredentials with the headers read before the body
extractCredentials_HeadersFirst(r) ==
    [serverUrl |-> normalizeServerUrl(
                     Or(Or(Get(r.headers, "x-jira-server"),
                           OptGet(r.body, "serverUrl")),
                        Get(r.query, "serverUrl"))),
     username |-> Or(Or(Get(r.headers, "x-jira-user"),
                        OptGet(r.body, "username")),
                     Get(r.query, "username")),
     apiToken |-> Or(Or(Get(r.headers, "x-jira-token"),
                        OptGet(r.body, "apiToken")),
                     Get(r.query, "apiToken"))]

\* body > headers > query, each field on its own
extractCredentials(r) ==
    [serverUrl |-> normalizeServerUrl(
                     Or(Or(OptGet(r.body, "serverUrl"),
                           Get(r.headers, "x-jira-server")),
                        Get(r.query, "serverUrl"))),
     username |-> Or(Or(OptGet(r.body, "username"),
                        Get(r.headers, "x-jira-user")),
                     Get(r.query, "username")),
     apiToken |-> Or(Or(OptGet(r.body, "apiToken"),
                        Get(r.headers, "x-jira-token")),
                     Get(r.query, "apiToken"))]

\* const { serverUrl, username, apiToken } = req.body (a body that is an
\* object; destructuring undefined throws before this is reached)
bodyCredentials(r) ==
    [serverUrl |-> Get(r.body, "serverUrl"),
     username |-> Get(r.body, "username"),
     apiToken |-> Get(r.body, "apiToken")]

\* !serverUrl || !username || !apiToken
Incomplete(c) ==
    ~Truthy(c.serverUrl) \/ ~Truthy(c.username) \/ ~Truthy(c.apiToken)

\* the fallback variant: the environment fills in what an HR user's request
\* lacks. No route calls it: the hr routes read the environment directly.
extractCredentialsWithHRFallback(r, isHRUser, e) ==
    LET extracted == extractCredentials(r)
        hrCredentials == getHRCredentials(e)
    IN  IF isHRUser /\ Incomplete(extracted)
        THEN [serverUrl |-> Or(extracted.serverUrl, hrCredentials.serverUrl),
              username |-> Or(extracted.username, hrCredentials.username),
              apiToken |-> Or(extracted.apiToken, hrCredentials.apiToken)]
        ELSE extracted

---------------------------------------------------------------------------
(* Responses and upstream calls *)

NoReq == [method |-> "none"]
NoCall == [method |-> "none"]
NoReply == [kind |-> "none"]
NoRes == [status |-> 0]

\* res.status(s).json(v)
Json(s, v) == [status |-> s, ctype |-> "json", body |-> Stringified(v)]

\* res.status(s).send(text)
Sent(s, text) == [status |-> s, ctype |-> "text", body |-> Str(text)]

MissingCredentials ==
    Json(400, Obj([error |-> Text("Missing credentials"),
                   message |-> Text("Provide serverUrl, username and apiToken")]))

MissingHRCredentials ==
    Json(400, Obj([error |-> Text("Missing HR credentials"),
                   message |-> Text("HR JIRA credentials not configured")]))

\* a catch block that answers without its message
Caught_WithoutMessage(err, message) ==
    Json(500, Obj([error |-> Text(err)]))

\* the catch block of a handler: 500 {error: String(err), message}
Caught(err, message) ==
    Json(500, Obj([error |-> Text(err), message |-> Text(message)]))

FailureMessage(h) ==
    CASE h = "test-connection" -> "Failed to connect to JIRA"
      [] h = "hr/get-tasks" -> "Failed to fetch JIRA tasks for HR"
      [] h = "get-tasks" -> "Failed to fetch JIRA tasks"
      [] h = "hr/get-projects" -> "Failed to fetch JIRA projects for HR"
      [] h = "get-projects" -> "Failed to fetch JIRA projects"
      [] h = "add-worklog" -> "Failed to add worklog to JIRA"
      [] h = "get-worklogs" -> "Failed to get worklogs from JIRA"
      [] OTHER -> "Failed to proxy request to JIRA"

UserAgent == "JIRA-Proxy-Server/1.0"
ApplicationJson == Text("application/json")

\* an Authorization header that carries the token alone
authHeader_TokenOnly(username, apiToken) ==
    [scheme |-> "Bearer", base64 |-> StringOf(apiToken)]

\* `Basic ${Buffer.from(`${username}:${apiToken}`).toString("base64")}`
authHeader(username, apiToken) ==
    [scheme |-> "Basic",
     base64 |-> StringOf(username) \o <<":">> \o StringOf(apiToken)]

\* the arguments of fetch(): base is the serverUrl the target starts with
UpstreamCall(method, c, tail, accept, contentType, body) ==
    [method |-> method,
     base |-> StringOf(c.serverUrl),
     url |-> StringOf(c.serverUrl) \o tail,
     authorization |-> authHeader(c.username, c.apiToken),
     accept |-> accept,
     contentType |-> contentType,
     userAgent |-> UserAgent,
     body |-> body]

\* node-fetch takes only absolute http(s) URLs with a host; any other URL
\* makes fetch() reject before anything is sent
FetchAccepts(url) ==
    LET u == Trim(url)
        rest == {i \in 3..Len(u) : u[i] # "/"}
        start == MinOf(rest)
        stops == {i \in start..Len(u) : u[i] \in {"/", "?"}}
        stop == IF stops = {} THEN Len(u) + 1 ELSE MinOf(stops)
    IN  /\ Len(u) >= 3
        /\ u[1] \in {"http", "https", "HTTP", "HTTPS", "Http", "Https"}
        /\ u[2] = ":"
        /\ rest # {}
        /\ stop > start
        /\ \A i \in start..(stop - 1) : ~IsSpace(u[i])

Responded(r) == [kind |-> "respond", res |-> r, call |-> NoCall]
Fetching(c) == [kind |-> "fetch", res |-> NoRes, call |-> c]

\* await fetch(...) inside the handler's try block
Fetch(h, c) ==
    IF FetchAccepts(c.url) THEN Fetching(c)
    ELSE Responded(Caught("TypeError: Invalid URL", FailureMessage(h)))

\* response.ok
Ok(rp) == rp.status >= 200 /\ rp.status <= 299

---------------------------------------------------------------------------
(* The time-spent pattern of add-worklog *)

IsDigit(a) == a \in {"0", "1", "2", "3", "4", "5", "6", "7", "8", "9"}
IsUnit(a) == a \in {"w", "d", "h", "m"}

\* where \d+[wdhm] can end when it starts at position i
TokenFrom(s, i) ==
    {k + 2 : k \in {k \in i..(Len(s) - 1) :
                      /\ \A x \in i..k : IsDigit(s[x])
                      /\ IsUnit(s[k + 1])}}

\* (\d+[wdhm])? from any of the positions P
OptToken(s, P) == P \cup UNION {TokenFrom(s, i) : i \in P}

\* \s* from any of the positions P
Spaces(s, P) ==
    {j \in 1..(Len(s) + 1) :
        \E i \in P : i <= j /\ \A x \in i..(j - 1) : IsSpace(s[x])}

\* /^(\d+[wdhm])?\s*(\d+[wdhm])?\s*(\d+[wdhm])?\s*(\d+[wdhm])?$/.test(s)
timeSpentRegex(s) ==
    (Len(s) + 1) \in
        OptToken(s, Spaces(s, OptToken(s, Spaces(s,
            OptToken(s, Spaces(s, OptToken(s, {1})))))))

---------------------------------------------------------------------------
(* The handlers, up to their await fetch(...) *)

MyselfPath == <<"/", "rest", "/", "api", "/", "3", "/", "myself">>
SearchPath == <<"/", "rest", "/", "api", "/", "3", "/", "search", "/", "jql">>
ProjectSearchPath ==
    <<"/", "rest", "/", "api", "/", "3", "/", "project", "/", "search",
      "?", "maxResults", "=", "100", "&", "expand", "=",
      "description,lead,url,projectKeys">>
IssuePath == <<"/", "rest", "/", "api", "/", "3", "/", "issue", "/">>
WorklogSuffix == <<"/", "worklog">>

DefaultJql ==
    <<"assignee", " ", "=", " ", "currentUser()", " ", "AND", " ",
      "status", " ", "!=", " ", "Done", " ", "ORDER", " ", "BY", " ",
      "updated", " ", "DESC">>

\* URLSearchParams.toString(), atom by atom
FormEncoded(s) ==
    [i \in DOMAIN s |->
        CASE s[i] = " " -> "+"
          [] s[i] = "=" -> "%3D"
          [] s[i] = "!=" -> "%21%3D"
          [] s[i] = "currentUser()" -> "currentUser%28%29"
          [] OTHER -> s[i]]

SearchQuery(jql) ==
    <<"?", "jql", "=">> \o FormEncoded(StringOf(jql))
      \o <<"&", "maxResults", "=", "100", "&", "fields", "=",
           "summary%2Cstatus%2Cassignee%2Cpriority%2Cproject%2Cissuetype%2Ctimetracking%2Ccreated%2Cupdated%2Cdescription%2Cworklog">>

GetCall(c, tail) ==
    UpstreamCall("GET", c, tail, ApplicationJson, Undef, Undef)

testConnection(r) ==
    LET c == extractCredentials(r)
    IN  IF Incomplete(c) THEN Responded(MissingCredentials)
        ELSE Fetch("test-connection", GetCall(c, MyselfPath))

hrGetTasks(r, e) ==
    LET c == getHRCredentials(e)
        jql == Or(OptGet(r.body, "jql"), Str(DefaultJql))
    IN  IF Incomplete(c) THEN Responded(MissingHRCredentials)
        ELSE Fetch("hr/get-tasks", GetCall(c, SearchPath \o SearchQuery(jql)))

getTasks(r) ==
    LET c == extractCredentials(r)
        jql == Or(OptGet(r.body, "jql"), Str(DefaultJql))
    IN  IF Incomplete(c) THEN Responded(MissingCredentials)
        ELSE Fetch("get-tasks", GetCall(c, SearchPath \o SearchQuery(jql)))

hrGetProjects(r, e) ==
    LET c == getHRCredentials(e)
    IN  IF Incomplete(c) THEN Responded(MissingHRCredentials)
        ELSE Fetch("hr/get-projects", GetCall(c, ProjectSearchPath))

getProjects(r) ==
    LET c == extractCredentials(r)
    IN  IF Incomplete(c) THEN Responded(MissingCredentials)
        ELSE Fetch("get-projects", GetCall(c, ProjectSearchPath))

MissingWorklogFields ==
    Json(400, Obj([error |-> Text("Missing required fields"),
                   message |-> Text("Provide issueKey and timeSpent")]))

MissingIssueKey ==
    Json(400, Obj([error |-> Text("Missing required fields"),
                   message |-> Text("Provide issueKey")]))

InvalidTimeFormat ==
    Json(400, Obj([error |-> Text("Invalid time format"),
                   message |-> Text("Time format should be like: 2h 30m, 1d, 45m (w=week, d=day, h=hour, m=minute)")]))

\* Jira's document format around the trimmed comment
CommentDoc(text) ==
    Obj([type |-> Text("doc"),
         version |-> Num(1),
         content |-> Arr(<<Obj([type |-> Text("paragraph"),
                                content |-> Arr(<<Obj([type |-> Text("text"),
                                                       text |-> Str(text)])>>)])>>)])

worklogPayload(timeSpent, comment) ==
    IF Truthy(comment) /\ Trim(comment.s) # <<>>
    THEN Obj([timeSpent |-> timeSpent, comment |-> CommentDoc(Trim(comment.s))])
    ELSE Obj([timeSpent |-> timeSpent])

addWorklog(r) ==
    IF Nullish(r.body)
    THEN Responded(Caught("TypeError: Cannot destructure property of req.body",
                          FailureMessage("add-worklog")))
    ELSE LET c == bodyCredentials(r)
             issueKey == Get(r.body, "issueKey")
             timeSpent == Get(r.body, "timeSpent")
             comment == Get(r.body, "comment")
         IN  IF Incomplete(c) THEN Responded(MissingCredentials)
             ELSE IF ~Truthy(issueKey) \/ ~Truthy(timeSpent)
                  THEN Responded(MissingWorklogFields)
             ELSE IF timeSpent.t # "string"
                  THEN Responded(Caught("TypeError: timeSpent.trim is not a function",
                                        FailureMessage("add-worklog")))
             ELSE IF ~timeSpentRegex(Trim(timeSpent.s))
                  THEN Responded(InvalidTimeFormat)
             ELSE IF Truthy(comment) /\ comment.t # "string"
                  THEN Responded(Caught("TypeError: comment.trim is not a function",
                                        FailureMessage("add-worklog")))
             ELSE Fetch("add-worklog",
                        UpstreamCall("POST", c,
                                     IssuePath \o StringOf(issueKey) \o WorklogSuffix,
                                     ApplicationJson, ApplicationJson,
                                     Stringified(worklogPayload(timeSpent, comment))))

\* get-worklogs checking its issueKey before the credentials
getWorklogs_FieldsFirst(r) ==
    IF Nullish(r.body)
    THEN Responded(Caught("TypeError: Cannot destructure property of req.body",
                          FailureMessage("get-worklogs")))
    ELSE LET c == bodyCredentials(r)
             issueKey == Get(r.body, "issueKey")
         IN  IF ~Truthy(issueKey) THEN Responded(MissingIssueKey)
             ELSE IF Incomplete(c) THEN Responded(MissingCredentials)
             ELSE Fetch("get-worklogs",
                        GetCall(c, IssuePath \o StringOf(issueKey) \o WorklogSuffix))

getWorklogs(r) ==
    IF Nullish(r.body)
    THEN Responded(Caught("TypeError: Cannot destructure property of req.body",
                          FailureMessage("get-worklogs")))
    ELSE LET c == bodyCredentials(r)
             issueKey == Get(r.body, "issueKey")
         IN  IF Incomplete(c) THEN Responded(MissingCredentials)
             ELSE IF ~Truthy(issueKey) THEN Responded(MissingIssueKey)
             ELSE Fetch("get-worklogs",
                        GetCall(c, IssuePath \o StringOf(issueKey) \o WorklogSuffix))

\* req.originalUrl.replace(/^\/jira/, "")
pathAfter(url) == IF IsPrefix(JiraPrefix, url) THEN SubSeq(url, 3, Len(url)) ELSE url

\* the body the generic proxy forwards
forwardBody(r) ==
    IF r.method \in {"GET", "HEAD"} THEN Undef
    ELSE Stringified(Or(r.body, EmptyObj))

genericProxy(r) ==
    LET c == extractCredentials(r)
    IN  IF Incomplete(c) THEN Responded(MissingCredentials)
        ELSE Fetch("generic",
                   UpstreamCall(r.method, c, pathAfter(originalUrl(r)),
                                Or(Get(r.headers, "accept"), ApplicationJson),
                                Or(Get(r.headers, "content-type"), ApplicationJson),
                                forwardBody(r)))

---------------------------------------------------------------------------
(* The handlers, from the upstream reply on.  A reply of kind "error" is  *)
(* fetch() rejecting (the network failed); every handler's catch block    *)
(* answers it.                                                            *)

NetworkError(h) == Caught("FetchError: request failed", FailureMessage(h))
JsonError(h) == Caught("FetchError: invalid json response body", FailureMessage(h))
TypeError(h) == Caught("TypeError: Cannot read properties", FailureMessage(h))

\* the non-2xx branch shared by every specific handler but add-worklog
UpstreamError(rp) ==
    Json(rp.status, Obj([error |-> Str(rp.text), status |-> Num(rp.status)]))

testConnectionReply(rp) ==
    IF rp.kind = "error" THEN NetworkError("test-connection")
    ELSE IF ~Ok(rp)
         THEN Json(rp.status, Obj([error |-> Str(rp.text),
                                   status |-> Num(rp.status),
                                   statusText |-> Text(rp.statusText)]))
    ELSE LET data == JSONParse(rp.text)
         IN  IF ~data.ok THEN JsonError("test-connection")
             ELSE IF Nullish(data.v) THEN TypeError("test-connection")
             ELSE Json(200, Obj([status |-> Text("ok"),
                                 user |-> Obj([accountId |-> Get(data.v, "accountId"),
                                               displayName |-> Get(data.v, "displayName"),
                                               emailAddress |-> Get(data.v, "emailAddress"),
                                               active |-> Get(data.v, "active")]),
                                 message |-> Text("Connection successful")]))

\* cursor is "nextPageToken" for get-tasks and "startAt" for hr/get-tasks
tasksReply(h, cursor, rp) ==
    IF rp.kind = "error" THEN NetworkError(h)
    ELSE IF ~Ok(rp) THEN UpstreamError(rp)
    ELSE LET data == JSONParse(rp.text)
         IN  IF ~data.ok THEN JsonError(h)
             ELSE IF Nullish(data.v) THEN TypeError(h)
             ELSE Json(200, Obj(("issues" :> Get(data.v, "issues"))
                                @@ ("total" :> Get(data.v, "total"))
                                @@ ("maxResults" :> Get(data.v, "maxResults"))
                                @@ (cursor :> Get(data.v, cursor))))

getTasksReply(rp) == tasksReply("get-tasks", "nextPageToken", rp)
hrGetTasksReply(rp) == tasksReply("hr/get-tasks", "startAt", rp)

ProjectFields == {"id", "key", "name", "projectTypeKey", "simplified"}

\* (p) => ({ id: p.id, key: p.key, name: p.name, ... })
projectEntry(p) == Obj([k \in ProjectFields |-> Get(p, k)])

projectsReply(h, rp) ==
    IF rp.kind = "error" THEN NetworkError(h)
    ELSE IF ~Ok(rp) THEN UpstreamError(rp)
    ELSE LET data == JSONParse(rp.text)
         IN  IF ~data.ok THEN JsonError(h)
             ELSE IF Nullish(data.v) THEN TypeError(h)
             ELSE LET values == Or(Get(data.v, "values"), Arr(<<>>))
                  IN  IF values.t # "array" THEN TypeError(h)
                      ELSE IF \E i \in DOMAIN values.a : Nullish(values.a[i])
                           THEN TypeError(h)
                      ELSE Json(200, Obj([projects |->
                              Arr([i \in DOMAIN values.a |->
                                      projectEntry(values.a[i])])]))

getProjectsReply(rp) == projectsReply("get-projects", rp)
hrGetProjectsReply(rp) == projectsReply("hr/get-projects", rp)

\* the non-2xx branch of add-worklog
worklogError(rp) ==
    LET parsed == JSONParse(rp.text)
        errorData == IF parsed.ok THEN parsed.v ELSE Obj([error |-> Str(rp.text)])
    IN  IF Nullish(errorData) THEN TypeError("add-worklog")
        ELSE Json(rp.status,
                  Obj([error |-> Or(Or(Get(errorData, "error"),
                                       Get(errorData, "errorMessages")),
                                    Str(rp.text)),
                       status |-> Num(rp.status),
                       details |-> errorData]))

addWorklogReply(rp) ==
    IF rp.kind = "error" THEN NetworkError("add-worklog")
    ELSE IF ~Ok(rp) THEN worklogError(rp)
    ELSE LET data == JSONParse(rp.text)
         IN  IF ~data.ok THEN JsonError("add-worklog")
             ELSE Json(200, Obj([status |-> Text("ok"),
                                 message |-> Text("Worklog added successfully"),
                                 worklog |-> data.v]))

getWorklogsReply(rp) ==
    IF rp.kind = "error" THEN NetworkError("get-worklogs")
    ELSE IF ~Ok(rp) THEN UpstreamError(rp)
    ELSE LET data == JSONParse(rp.text)
         IN  IF ~data.ok THEN JsonError("get-worklogs")
             ELSE IF Nullish(data.v) THEN TypeError("get-worklogs")
             ELSE Json(200, Obj([status |-> Text("ok"),
                                 message |-> Text("Worklogs retrieved successfully"),
                                 worklogs |-> Or(Get(data.v, "worklogs"), Arr(<<>>)),
                                 total |-> Or(Get(data.v, "total"), Num(0))]))

\* (response.headers.get("content-type") || "").includes("application/json")
IsJsonContentType(ctype) ==
    Truthy(ctype) /\ \E i \in DOMAIN ctype.s : ctype.s[i] = "application/json"

genericProxyReply(rp) ==
    IF rp.kind = "error" THEN NetworkError("generic")
    ELSE IF IsJsonContentType(rp.ctype)
         THEN LET data == JSONParse(rp.text)
              IN  IF ~data.ok THEN JsonError("generic")
                  ELSE Json(rp.status, data.v)
    ELSE Sent(rp.status, rp.text)

health == Json(200, Obj([status |-> Text("ok"),
                         message |-> Text("JIRA proxy server is running"),
                         timestamp |-> Text("now")]))

\* Express's answer when no route matches
notFound == Sent(404, <<"Cannot", " ", "route">>)

---------------------------------------------------------------------------
(* The inputs: what clients send, what process.env holds, what upstream   *)
(* answers                                                                *)

MaxTrail == 2
MaxTimeLen == 5
MaxValues == 2

Empty == Str(<<>>)

\* an object holding the members of f that are given
Present(f) == Obj([k \in {k \in DOMAIN f : f[k] # Undef} |-> f[k]])

Request(method, path, body, headers, query) ==
    [method |-> method, path |-> path, body |-> body,
     headers |-> Present(headers), query |-> Present(query)]

NoHeaders == [k \in {} |-> Undef]
NoQuery == [k \in {} |-> Undef]

Url(host) == Str(HTTPS \o <<host>>)
IssueK == Text("K")
TwoHours == Str(<<"2", "h">>)

\* how one field can arrive over the three transports <<body, header, query>>
Placements(b, h, q) ==
    { <<Undef, Undef, Undef>>, <<b, Undef, Undef>>, <<Undef, h, Undef>>,
      <<Undef, Undef, q>>, <<b, h, q>>, <<Empty, h, q>>, <<Undef, Empty, q>>,
      <<Empty, Empty, Empty>> }

GenericPath == RestApiPrefix \o <<"3", "/", "issue", "/", "K">>

CredentialTargets ==
    { <<"POST", TestConnectionPath>>, <<"POST", GetTasksPath>>,
      <<"POST", GetProjectsPath>>, <<"POST", AddWorklogPath>>,
      <<"POST", GetWorklogsPath>>, <<"GET", GenericPath>> }

\* every placement of every credential, on each route that takes them
CredentialRequests ==
    { Request(t[1], t[2],
              Present([serverUrl |-> s[1], username |-> u[1], apiToken |-> k[1],
                       issueKey |-> IssueK, timeSpent |-> TwoHours]),
              ("x-jira-server" :> s[2]) @@ ("x-jira-user" :> u[2])
                 @@ ("x-jira-token" :> k[2]),
              [serverUrl |-> s[3], username |-> u[3], apiToken |-> k[3]]) :
        t \in CredentialTargets,
        s \in Placements(Url("b"), Url("h"), Url("q")),
        u \in Placements(Text("ub"), Text("uh"), Text("uq")),
        k \in Placements(Text("tb"), Text("th"), Text("tq")) }

HeaderCredentials ==
    ("x-jira-server" :> Url("h")) @@ ("x-jira-user" :> Text("uh"))
       @@ ("x-jira-token" :> Text("th"))

AllTargets ==
    CredentialTargets \cup
    { <<"POST", HrGetTasksPath>>, <<"POST", HrGetProjectsPath>>,
      <<"DELETE", GenericPath>> }

\* requests that carry no JSON body: req.body is undefined
BodylessRequests ==
    { Request(t[1], t[2], Undef, h, NoQuery) :
        t \in AllTargets, h \in {NoHeaders, HeaderCredentials} }

Strings(alphabet, n) == UNION {[1..m -> alphabet] : m \in 0..n}

\* server URLs as users type them
RawUrls ==
    { lead \o scheme \o host \o trail :
        lead \in {<<>>, <<" ">>},
        scheme \in {<<>>, HTTPS, <<"http", ":", "/", "/">>,
                    <<"HTTPS", ":", "/", "/">>},
        host \in {<<>>, <<"a">>},
        trail \in Strings({"/", " "}, MaxTrail) }

UrlTargets ==
    { <<"POST", TestConnectionPath>>, <<"POST", AddWorklogPath>>,
      <<"POST", GetWorklogsPath>>, <<"GET", GenericPath>> }

UrlRequests ==
    { Request(t[1], t[2],
              Present([serverUrl |-> Str(raw), username |-> Text("u"),
                       apiToken |-> Text("tok"),
                       issueKey |-> IssueK, timeSpent |-> TwoHours]),
              NoHeaders, NoQuery) :
        t \in UrlTargets, raw \in RawUrls }

TimeAlphabet == {"2", "h", "m", " ", "x"}
TimeStrings == Strings(TimeAlphabet, MaxTimeLen)

WorklogRequest(issueKey, timeSpent, comment) ==
    Request("POST", AddWorklogPath,
            Present([serverUrl |-> Url("a"), username |-> Text("u"),
                     apiToken |-> Text("tok"), issueKey |-> issueKey,
                     timeSpent |-> timeSpent, comment |-> comment]),
            NoHeaders, NoQuery)

WorklogRequests ==
    { WorklogRequest(IssueK, Str(s), Undef) : s \in TimeStrings }
    \cup { WorklogRequest(IssueK, t, Undef) : t \in {Undef, Num(5), Num(0)} }
    \cup { WorklogRequest(k, TwoHours, Undef) : k \in {Undef, Empty} }
    \cup { WorklogRequest(IssueK, TwoHours, c) :
             c \in {Empty, Str(<<" ">>), Str(<<" ", "c", " ">>), Num(5)} }

GenericMethods == {"GET", "HEAD", "POST", "PUT", "DELETE"}

Payload == [summary |-> Text("s")]
BodyCredentials ==
    [serverUrl |-> Url("a"), username |-> Text("u"), apiToken |-> Text("tok")]

GenericRequests ==
    { Request(m, GenericPath, body, HeaderCredentials @@ h, NoQuery) :
        m \in GenericMethods,
        body \in {Undef, EmptyObj, Present(Payload)},
        h \in { NoHeaders, ("content-type" :> Text("text/plain")),
                ("accept" :> Text("text/html")) } }
    \cup { Request(m, GenericPath, Present(BodyCredentials @@ p), NoHeaders, q) :
             m \in GenericMethods, p \in {Payload, NoQuery},
             q \in {NoQuery, [expand |-> Text("names")]} }
    \cup { Request(m, GenericPath, body, NoHeaders, BodyCredentials @@ q) :
             m \in GenericMethods, body \in {Undef, Present(Payload)},
             q \in {NoQuery, [expand |-> Text("names")]} }

\* one well-formed request for each specific handler
PlainRequests ==
    { Request("POST", p, Present(BodyCredentials @@ extra), NoHeaders, NoQuery) :
        p \in { TestConnectionPath, HrGetTasksPath, GetTasksPath,
                HrGetProjectsPath, GetProjectsPath, AddWorklogPath,
                GetWorklogsPath },
        extra \in { [issueKey |-> IssueK, timeSpent |-> TwoHours],
                    [issueKey |-> IssueK, timeSpent |-> TwoHours,
                     jql |-> Str(<<"project", " ", "=", " ", "AB">>)] } }

OtherRequests ==
    { Request("GET", HealthPath, Undef, NoHeaders, NoQuery),
      Request("POST", HealthPath, EmptyObj, NoHeaders, NoQuery),
      Request("GET", GetTasksPath, Undef, HeaderCredentials, NoQuery),
      Request("GET", <<"/", "jira", "/", "other">>, Undef, HeaderCredentials,
              NoQuery) }
    \cup { Request("POST", p, body, NoHeaders, NoQuery) :
             p \in {AddWorklogPath, GetWorklogsPath},
             body \in {EmptyObj, Present(BodyCredentials)} }

Requests ==
    CredentialRequests \cup BodylessRequests \cup UrlRequests
       \cup WorklogRequests \cup GenericRequests \cup PlainRequests
       \cup OtherRequests

EnvConfigs ==
    { [HR_JIRA_SERVER_URL |-> Undef, HR_JIRA_USERNAME |-> Undef,
       HR_JIRA_API_TOKEN |-> Undef],
      [HR_JIRA_SERVER_URL |-> Url("hr"), HR_JIRA_USERNAME |-> Text("hruser"),
       HR_JIRA_API_TOKEN |-> Text("hrtok")],
      [HR_JIRA_SERVER_URL |-> Str(HTTPS \o <<"hr", "/">>),
       HR_JIRA_USERNAME |-> Text("hruser"), HR_JIRA_API_TOKEN |-> Text("hrtok")] }

\* JSON texts, token by token
Quoted(w) == <<"\"", w, "\"">>
Member(k, v) == Quoted(k) \o <<":">> \o v

RECURSIVE Joined(_)
Joined(parts) ==
    IF parts = <<>> THEN <<>>
    ELSE IF Len(parts) = 1 THEN parts[1]
    ELSE parts[1] \o <<",">> \o Joined(Tail(parts))

ObjectText(members) == <<"{">> \o Joined(members) \o <<"}">>
ArrayText(elements) == <<"[">> \o Joined(elements) \o <<"]">>

FullProject ==
    ObjectText(<<Member("id", Quoted("1")), Member("key", Quoted("AB")),
                 Member("name", Quoted("Test")),
                 Member("projectTypeKey", Quoted("software")),
                 Member("simplified", <<"true">>),
                 Member("extraField", Quoted("x"))>>)
PartialProject ==
    ObjectText(<<Member("id", Quoted("2")), Member("key", Quoted("CD")),
                 Member("lead", Quoted("me"))>>)

ProjectTexts ==
    { ObjectText(<<Member("values", ArrayText(l)), Member("total", <<"5">>)>>) :
        l \in Strings({FullProject, PartialProject, <<"null">>}, MaxValues) }
    \cup { ObjectText(<<Member("values", <<"null">>)>>),
           ObjectText(<<Member("values", Quoted("x"))>>) }

CoreTexts ==
    { <<>>, <<"null">>, <<"5">>, Quoted("oops"), <<"{", "}">>,
      <<"<", "html", ">">>,
      ObjectText(<<Member("error", Quoted("bad"))>>),
      ObjectText(<<Member("errorMessages", ArrayText(<<Quoted("no")>>))>>),
      <<"{", " ", "\"", "error", "\"", " ", ":", " ", "\"", "bad", "\"", " ", "}">>,
      ObjectText(<<Member("accountId", Quoted("1")),
                   Member("displayName", Quoted("Ann")),
                   Member("active", <<"true">>),
                   Member("locale", Quoted("en"))>>),
      ObjectText(<<Member("issues", ArrayText(<<>>)), Member("total", <<"0">>),
                   Member("startAt", <<"0">>),
                   Member("nextPageToken", Quoted("p2"))>>),
      ObjectText(<<Member("worklogs", ArrayText(<<ObjectText(<<Member("id", Quoted("1"))>>)>>)),
                   Member("total", <<"1">>)>>) }

Statuses == {200, 401, 500}
StatusText(s) ==
    CASE s = 200 -> "OK" [] s = 401 -> "Unauthorized" [] OTHER -> "Internal Server Error"

Response(s, ctype, text) ==
    [kind |-> "response", status |-> s, statusText |-> StatusText(s),
     ctype |-> ctype, text |-> text]

FetchFailed == [kind |-> "error"]

JsonType == Str(<<"application/json", ";", "charset=UTF-8">>)
HtmlType == Text("text/html")

BasicReplies ==
    { Response(200, JsonType, <<"{", "}">>),
      Response(401, HtmlType, <<"<", "html", ">">>),
      FetchFailed }

RichRequests ==
    PlainRequests \cup
    {r \in GenericRequests : r.body = Undef /\ r.headers = Present(HeaderCredentials)}

\* what upstream may answer to the call of request r, taken by handler h
RepliesFor(h, r) ==
    IF r \notin RichRequests THEN BasicReplies
    ELSE {FetchFailed} \cup
         CASE h = "generic" ->
                { Response(s, c, t) :
                    s \in Statuses, c \in {JsonType, HtmlType, Null}, t \in CoreTexts }
           [] h \in {"get-projects", "hr/get-projects"} ->
                { Response(s, JsonType, t) :
                    s \in Statuses, t \in CoreTexts \cup ProjectTexts }
           [] OTHER ->
                { Response(s, JsonType, t) : s \in Statuses, t \in CoreTexts }

---------------------------------------------------------------------------
(* The server *)

MaxInFlight == 2

\* a request slot of the event loop with no request in it
IdleFlight ==
    [pc |-> "idle", req |-> NoReq, handler |-> "none", call |-> NoCall,
     reply |-> NoReply, res |-> NoRes]

Init ==
    /\ env \in EnvConfigs
    /\ pc = "idle"
    /\ req = NoReq
    /\ handler = "none"
    /\ call = NoCall
    /\ calls = 0
    /\ reply = NoReply
    /\ res = NoRes
    /\ sent = 0
    /\ flights = [i \in 1..MaxInFlight |-> IdleFlight]

\* the requests that can arrive: one request is followed at a time
Inbox == IF pc = "idle" THEN Requests ELSE {}

\* the replies upstream can give to the call in flight
Outbox == IF pc = "awaiting" THEN RepliesFor(handler, req) ELSE {}

\* a handler runs from the request to its first await or to its response
Begin(r, out) ==
    /\ pc = "idle"
    /\ req' = r
    /\ handler' = Route(r)
    /\ call' = out.call
    /\ calls' = IF out.kind = "fetch" THEN calls + 1 ELSE calls
    /\ res' = out.res
    /\ sent' = IF out.kind = "fetch" THEN sent ELSE sent + 1
    /\ pc' = IF out.kind = "fetch" THEN "awaiting" ELSE "done"
    /\ UNCHANGED <<env, reply, flights>>

\* a handler whose catch block answers a request already answered in try
Resume_TwoResponses(rp, response) ==
    /\ pc = "awaiting"
    /\ reply' = rp
    /\ res' = response
    /\ sent' = sent + 2
    /\ pc' = "done"
    /\ UNCHANGED <<env, req, handler, call, calls, flights>>

\* a handler resumes with what fetch() gave and responds
Resume(rp, response) ==
    /\ pc = "awaiting"
    /\ reply' = rp
    /\ res' = response
    /\ sent' = sent + 1
    /\ pc' = "done"
    /\ UNCHANGED <<env, req, handler, call, calls, flights>>

Health(r) ==
    /\ Route(r) = "health"
    /\ Begin(r, Responded(health))

NotFound(r) ==
    /\ Route(r) = "none"
    /\ Begin(r, Responded(notFound))

TestConnection(r) ==
    /\ Route(r) = "test-connection"
    /\ Begin(r, testConnection(r))

HrGetTasks(r) ==
    /\ Route(r) = "hr/get-tasks"
    /\ Begin(r, hrGetTasks(r, env))

GetTasks(r) ==
    /\ Route(r) = "get-tasks"
    /\ Begin(r, getTasks(r))

HrGetProjects(r) ==
    /\ Route(r) = "hr/get-projects"
    /\ Begin(r, hrGetProjects(r, env))

GetProjects(r) ==
    /\ Route(r) = "get-projects"
    /\ Begin(r, getProjects(r))

AddWorklog(r) ==
    /\ Route(r) = "add-worklog"
    /\ Begin(r, addWorklog(r))

GetWorklogs(r) ==
    /\ Route(r) = "get-worklogs"
    /\ Begin(r, getWorklogs(r))

GenericProxy(r) ==
    /\ Route(r) = "generic"
    /\ Begin(r, genericProxy(r))

TestConnectionReply(rp) ==
    /\ handler = "test-connection"
    /\ Resume(rp, testConnectionReply(rp))

HrGetTasksReply(rp) ==
    /\ handler = "hr/get-tasks"
    /\ Resume(rp, hrGetTasksReply(rp))

GetTasksReply(rp) ==
    /\ handler = "get-tasks"
    /\ Resume(rp, getTasksReply(rp))

HrGetProjectsReply(rp) ==
    /\ handler = "hr/get-projects"
    /\ Resume(rp, hrGetProjectsReply(rp))

GetProjectsReply(rp) ==
    /\ handler = "get-projects"
    /\ Resume(rp, getProjectsReply(rp))

AddWorklogReply(rp) ==
    /\ handler = "add-worklog"
    /\ Resume(rp, addWorklogReply(rp))

GetWorklogsReply(rp) ==
    /\ handler = "get-worklogs"
    /\ Resume(rp, getWorklogsReply(rp))

GenericProxyReply(rp) ==
    /\ handler = "generic"
    /\ Resume(rp, genericProxyReply(rp))

\* the response has gone out and the request is over
Close ==
    /\ pc = "done"
    /\ pc' = "idle"
    /\ req' = NoReq
    /\ handler' = "none"
    /\ call' = NoCall
    /\ calls' = 0
    /\ reply' = NoReply
    /\ res' = NoRes
    /\ sent' = 0
    /\ UNCHANGED <<env, flights>>

Next ==
    \/ \E r \in Inbox : Health(r)
    \/ \E r \in Inbox : NotFound(r)
    \/ \E r \in Inbox : TestConnection(r)
    \/ \E r \in Inbox : HrGetTasks(r)
    \/ \E r \in Inbox : GetTasks(r)
    \/ \E r \in Inbox : HrGetProjects(r)
    \/ \E r \in Inbox : GetProjects(r)
    \/ \E r \in Inbox : AddWorklog(r)
    \/ \E r \in Inbox : GetWorklogs(r)
    \/ \E r \in Inbox : GenericProxy(r)
    \/ \E rp \in Outbox : TestConnectionReply(rp)
    \/ \E rp \in Outbox : HrGetTasksReply(rp)
    \/ \E rp \in Outbox : GetTasksReply(rp)
    \/ \E rp \in Outbox : HrGetProjectsReply(rp)
    \/ \E rp \in Outbox : GetProjectsReply(rp)
    \/ \E rp \in Outbox : AddWorklogReply(rp)
    \/ \E rp \in Outbox : GetWorklogsReply(rp)
    \/ \E rp \in Outbox : GenericProxyReply(rp)
    \/ Close

Spec == Init /\ [][Next]_vars

\* the pending fetch settles: the promise resolves with a response or
\* rejects, and the event loop resumes the handler
Settle ==
    \E rp \in Outbox :
        \/ TestConnectionReply(rp) \/ HrGetTasksReply(rp) \/ GetTasksReply(rp)
        \/ HrGetProjectsReply(rp) \/ GetProjectsReply(rp)
        \/ AddWorklogReply(rp) \/ GetWorklogsReply(rp) \/ GenericProxyReply(rp)

\* the server, given that every upstream call returns or fails
FairSpec == Spec /\ WF_vars(Settle)

---------------------------------------------------------------------------
(* The server with several requests in flight: Node runs one handler at a  *)
(* time and switches between requests only where a handler awaits          *)

\* the router: the handler of r runs to its first await or to its response
Start(r, e) ==
    CASE Route(r) = "health" -> Responded(health)
      [] Route(r) = "test-connection" -> testConnection(r)
      [] Route(r) = "hr/get-tasks" -> hrGetTasks(r, e)
      [] Route(r) = "get-tasks" -> getTasks(r)
      [] Route(r) = "hr/get-projects" -> hrGetProjects(r, e)
      [] Route(r) = "get-projects" -> getProjects(r)
      [] Route(r) = "add-worklog" -> addWorklog(r)
      [] Route(r) = "get-worklogs" -> getWorklogs(r)
      [] Route(r) = "generic" -> genericProxy(r)
      [] OTHER -> Responded(notFound)

\* handler h resumes with what its fetch() gave and responds
Finish(h, rp) ==
    CASE h = "test-connection" -> testConnectionReply(rp)
      [] h = "hr/get-tasks" -> hrGetTasksReply(rp)
      [] h = "get-tasks" -> getTasksReply(rp)
      [] h = "hr/get-projects" -> hrGetProjectsReply(rp)
      [] h = "get-projects" -> getProjectsReply(rp)
      [] h = "add-worklog" -> addWorklogReply(rp)
      [] h = "get-worklogs" -> getWorklogsReply(rp)
      [] OTHER -> genericProxyReply(rp)

\* requests of clients with different credentials, over each transport
ConcurrentRequests ==
    { Request("POST", GetTasksPath, Present(BodyCredentials), NoHeaders, NoQuery),
      Request("POST", GetTasksPath, Undef, HeaderCredentials, NoQuery),
      Request("GET", GenericPath, Undef, NoHeaders,
              [serverUrl |-> Url("q"), username |-> Text("uq"),
               apiToken |-> Text("tq")]),
      Request("POST", HrGetProjectsPath, Undef, NoHeaders, NoQuery),
      Request("POST", GetWorklogsPath, Present([issueKey |-> IssueK]),
              NoHeaders, NoQuery) }

\* flight i becomes f; nothing else changes
Place(i, f) ==
    /\ flights' = [flights EXCEPT ![i] = f]
    /\ UNCHANGED <<env, pc, req, handler, call, calls, reply, res, sent>>

\* a request arrives in a free slot and its handler runs to its first await
Arrive(i, r) ==
    /\ flights[i].pc = "idle"
    /\ LET out == Start(r, env)
       IN  Place(i, [pc |-> IF out.kind = "fetch" THEN "awaiting" ELSE "done",
                     req |-> r, handler |-> Route(r), call |-> out.call,
                     reply |-> NoReply, res |-> out.res])

\* the fetch of flight i settles: rejected, its catch block responds;
\* resolved, the handler goes on to await the body
Return(i, rp) ==
    /\ flights[i].pc = "awaiting"
    /\ IF rp.kind = "error"
       THEN Place(i, [flights[i] EXCEPT !.pc = "done", !.reply = rp,
                                        !.res = Finish(flights[i].handler, rp)])
       ELSE Place(i, [flights[i] EXCEPT !.pc = "reading", !.reply = rp])

\* the handler whose reply is held in a variable of the module, which the
\* latest reply overwrites
Read_SharedReply(i) ==
    /\ flights[i].pc = "reading"
    /\ LET latest == IF \E j \in 1..MaxInFlight : flights[j].pc = "reading" /\ j # i
                     THEN flights[CHOOSE j \in 1..MaxInFlight :
                                     flights[j].pc = "reading" /\ j # i].reply
                     ELSE flights[i].reply
       IN  Place(i, [flights[i] EXCEPT !.pc = "done",
                                       !.res = Finish(flights[i].handler, latest)])

\* the body of flight i's reply has been read and its handler responds
Read(i) ==
    /\ flights[i].pc = "reading"
    /\ Place(i, [flights[i] EXCEPT !.pc = "done",
                    !.res = Finish(flights[i].handler, flights[i].reply)])

\* the response of flight i has gone out
Depart(i) ==
    /\ flights[i].pc = "done"
    /\ Place(i, IdleFlight)

ConcurrentNext ==
    \E i \in 1..MaxInFlight :
        \/ \E r \in ConcurrentRequests : Arrive(i, r)
        \/ \E rp \in BasicReplies : Return(i, rp)
        \/ Read(i)
        \/ Depart(i)

ConcurrentSpec == Init /\ [][ConcurrentNext]_vars

---------------------------------------------------------------------------
(* The claims *)

Handled == pc \in {"awaiting", "done"}
Answered == pc = "done"

\* absent or empty, said without the handlers' own tests
Usable(v) == v.t = "string" /\ Len(v.s) > 0

CredentialHandlers ==
    {"test-connection", "get-tasks", "get-projects", "add-worklog",
     "get-worklogs", "generic"}
ExtractingHandlers == {"test-connection", "get-tasks", "get-projects", "generic"}
WorklogHandlers == {"add-worklog", "get-worklogs"}

\* the value of a credential from one transport, undefined when not sent
FromBody(r, k) == IF r.body.t = "object" THEN Get(r.body, k) ELSE Undef
FromHeader(r, k) ==
    Get(r.headers, CASE k = "serverUrl" -> "x-jira-server"
                     [] k = "username" -> "x-jira-user"
                     [] OTHER -> "x-jira-token")
FromQuery(r, k) == Get(r.query, k)

CredentialKeys == {"serverUrl", "username", "apiToken"}

\* the credential a handler resolves: the worklog handlers read the body
\* only, the others the three transports
ResolvedBy(h, r, k) ==
    IF h \in WorklogHandlers THEN FromBody(r, k)
    ELSE IF Usable(FromBody(r, k)) THEN FromBody(r, k)
    ELSE IF Usable(FromHeader(r, k)) THEN FromHeader(r, k)
    ELSE FromQuery(r, k)

MissingAfterResolution(h, r) ==
    \E k \in CredentialKeys : ~Usable(ResolvedBy(h, r, k))

\* C1: a request to test-connection, get-tasks, get-projects, add-worklog,
\* get-worklogs or the generic passthrough that lacks a credential after
\* resolution is answered 400 "Missing credentials" and no upstream call
\* is issued for it.
C1_MissingCredentialsRejected ==
    (Handled /\ handler \in CredentialHandlers
        /\ MissingAfterResolution(handler, req))
    => /\ calls = 0
       /\ call = NoCall
       /\ res = MissingCredentials

\* C2: normalizing the server URL that extractCredentials has normalized
\* gives the same URL.
C2_NormalizeIdempotent ==
    (Handled /\ handler \in ExtractingHandlers
        /\ extractCredentials(req).serverUrl # Null)
    => normalizeServerUrl(extractCredentials(req).serverUrl)
          = extractCredentials(req).serverUrl

\* C3: the serverUrl at the start of the upstream target URL begins with
\* http:// or https:// and does not end with a slash (stated for the
\* handlers that do not call extractCredentials: add-worklog, get-worklogs
\* and the hr routes).
C3_UpstreamBaseNormalized ==
    (call # NoCall /\ handler \notin ExtractingHandlers)
    => /\ HasScheme(call.base)
       /\ call.base[Len(call.base)] # "/"

\* the time-spent strings of the claim: one or more <number><unit> tokens
\* separated by white space, the units in the order w, d, h, m
UnitRank(a) == CASE a = "w" -> 1 [] a = "d" -> 2 [] a = "h" -> 3 [] OTHER -> 4

\* the white-space separated words of s
RECURSIVE Words(_, _)
Words(s, word) ==
    IF s = <<>> THEN (IF word = <<>> THEN <<>> ELSE <<word>>)
    ELSE IF IsSpace(Head(s))
         THEN (IF word = <<>> THEN <<>> ELSE <<word>>) \o Words(Tail(s), <<>>)
         ELSE Words(Tail(s), Append(word, Head(s)))

IsTimeToken(w) ==
    /\ Len(w) >= 2
    /\ IsUnit(w[Len(w)])
    /\ \A i \in 1..(Len(w) - 1) : IsDigit(w[i])

InUnitOrder(s) ==
    LET ws == Words(s, <<>>)
    IN  /\ Len(ws) >= 1
        /\ \A i \in DOMAIN ws : IsTimeToken(ws[i])
        /\ \A i, j \in DOMAIN ws :
              i < j => UnitRank(ws[i][Len(ws[i])]) < UnitRank(ws[j][Len(ws[j])])

\* add-worklog got as far as its time-spent check with a string to check
ReachedTimeCheck ==
    /\ Handled
    /\ handler = "add-worklog"
    /\ req.body.t = "object"
    /\ \A k \in CredentialKeys : Usable(Get(req.body, k))
    /\ Usable(Get(req.body, "issueKey"))
    /\ Usable(Get(req.body, "timeSpent"))

\* C4: add-worklog lets through exactly the time-spent strings made of
\* <number><unit> tokens in unit order; every other string is answered 400
\* "Invalid time format" with no upstream call.
C4_TimeSpentValidator ==
    ReachedTimeCheck
    => IF InUnitOrder(Get(req.body, "timeSpent").s)
       THEN res # InvalidTimeFormat
       ELSE res = InvalidTimeFormat /\ calls = 0

\* the server URL a handler resolves, normalized
ResolvedUrl(h, r) == normalizeServerUrl(ResolvedBy(h, r, "serverUrl"))

\* C5: on the routes that call extractCredentials each credential is the
\* body value, else the header value, else the query value: the upstream
\* call is built from these, and a request is rejected as missing
\* credentials only when one of them resolves to nothing.
C5_CredentialPrecedence ==
    (Handled /\ handler \in ExtractingHandlers)
    => /\ (call # NoCall)
            => /\ call.base = ResolvedUrl(handler, req).s
               /\ call.authorization.base64 =
                     ResolvedBy(handler, req, "username").s \o <<":">>
                        \o ResolvedBy(handler, req, "apiToken").s
       /\ (res = MissingCredentials)
            => \/ MissingAfterResolution(handler, req)
               \/ ResolvedUrl(handler, req) = Null

\* body, header and query supply three different usernames and the call
\* carries the body's
C5_Witness ==
    /\ Handled /\ handler \in ExtractingHandlers /\ call # NoCall
    /\ Usable(FromBody(req, "username"))
    /\ Usable(FromHeader(req, "username"))
    /\ Usable(FromQuery(req, "username"))
    /\ FromBody(req, "username") # FromHeader(req, "username")
    /\ FromHeader(req, "username") # FromQuery(req, "username")
    /\ ~Usable(FromBody(req, "apiToken"))
    /\ Usable(FromHeader(req, "apiToken"))
    /\ Usable(FromQuery(req, "apiToken"))
    /\ call.authorization.base64 =
          FromBody(req, "username").s \o <<":">> \o FromHeader(req, "apiToken").s

OnlyInHeaders(r) ==
    \A k \in CredentialKeys :
        Usable(FromHeader(r, k)) /\ FromBody(r, k) = Undef /\ FromQuery(r, k) = Undef

OnlyInQuery(r) ==
    \A k \in CredentialKeys :
        Usable(FromQuery(r, k)) /\ FromBody(r, k) = Undef /\ FromHeader(r, k) = Undef

\* C6: add-worklog and get-worklogs take credentials sent only in the
\* x-jira-* headers or only in the query string: such a request, with its
\* issueKey (and a valid timeSpent) in the body, is not rejected as missing
\* credentials and one upstream call is issued.
C6_WorklogTransports ==
    (/\ Handled
     /\ handler \in WorklogHandlers
     /\ req.body.t = "object"
     /\ Usable(Get(req.body, "issueKey"))
     /\ handler = "add-worklog" =>
           /\ Usable(Get(req.body, "timeSpent"))
           /\ InUnitOrder(Get(req.body, "timeSpent").s)
     /\ OnlyInHeaders(req) \/ OnlyInQuery(req))
    => /\ res # MissingCredentials
       /\ calls = 1

GenericCalled == Handled /\ handler = "generic" /\ call # NoCall

\* the method and the target of the passthrough call
GenericTarget ==
    /\ call.method = req.method
    /\ call.url = ResolvedUrl("generic", req).s
                     \o SubSeq(originalUrl(req), 3, Len(originalUrl(req)))

\* C7: the passthrough call has the inbound method, targets the
\* normalized server URL followed by the inbound URL without its /jira
\* prefix, has no body for GET and HEAD, and has the inbound body for every
\* other method.
C7_PassthroughCall ==
    GenericCalled
    => /\ GenericTarget
       /\ call.body = IF req.method \in {"GET", "HEAD"} THEN Undef ELSE req.body

GenericAnswered == Answered /\ handler = "generic" /\ reply.kind = "response"

DeclaresJson(rp) == rp.ctype = JsonType

\* status and body of the upstream reply, handed on
Mirrored(rp, rs) ==
    /\ rs.status = rp.status
    /\ IF DeclaresJson(rp)
       THEN /\ JSONParse(rp.text).ok
            /\ rs.ctype = "json"
            /\ rs.body = JSONParse(rp.text).v
       ELSE /\ rs.ctype = "text"
            /\ rs.body = Str(rp.text)

\* C8: every upstream response to a passthrough request is
\* mirrored: the client gets the upstream status and the upstream body.
C8_PassthroughMirrors == GenericAnswered => Mirrored(reply, res)

ProjectsAnswered ==
    /\ Answered
    /\ handler \in {"get-projects", "hr/get-projects"}
    /\ reply.kind = "response"
    /\ Ok(reply)

\* the values list of the upstream reply, empty when it has none
UpstreamList(rp) ==
    LET d == JSONParse(rp.text)
    IN  IF d.ok /\ d.v.t = "object" /\ Get(d.v, "values").t = "array"
        THEN Get(d.v, "values").a
        ELSE <<>>

\* {projects: P}, P the five-field projection of the list, in its order
Projection(rs, list) ==
    /\ rs.status = 200
    /\ rs.ctype = "json"
    /\ rs.body.t = "object"
    /\ DOMAIN rs.body.f = {"projects"}
    /\ rs.body.f.projects.t = "array"
    /\ Len(rs.body.f.projects.a) = Len(list)
    /\ \A i \in DOMAIN list :
          /\ rs.body.f.projects.a[i].t = "object"
          /\ DOMAIN rs.body.f.projects.a[i].f \subseteq ProjectFields
          /\ \A k \in ProjectFields :
                Get(rs.body.f.projects.a[i], k) = Get(list[i], k)

\* C9: on a 2xx reply get-projects and hr/get-projects answer {projects: P},
\* P the projection of the upstream values list, empty when there is no
\* such list (stated for the replies whose body decodes as JSON).
C9_ProjectsProjection ==
    (ProjectsAnswered /\ JSONParse(reply.text).ok)
    => Projection(res, UpstreamList(reply))

SpecificHandlers ==
    {"test-connection", "hr/get-tasks", "get-tasks", "hr/get-projects",
     "get-projects", "add-worklog", "get-worklogs"}

\* C10: a specific handler answers a non-2xx upstream reply with status S
\* with status S and a body whose status field is S, whatever the body text.
C10_UpstreamErrorStatus ==
    (/\ Answered
     /\ handler \in SpecificHandlers
     /\ reply.kind = "response"
     /\ ~Ok(reply))
    => /\ res.status = reply.status
       /\ Get(res.body, "status") = Num(reply.status)


\* the fixed shape of a handler's catch block
IsCaught(rs) ==
    /\ rs.status = 500
    /\ rs.ctype = "json"
    /\ rs.body.t = "object"
    /\ DOMAIN rs.body.f = {"error", "message"}

\* the worklog handlers read their fields from a body that is not there
ReadFails == handler \in WorklogHandlers /\ req.body = Undef

\* fetch() rejected: the upstream call failed on the network
NetworkFails == reply.kind = "error"

\* the handler decodes the reply body as JSON and the body is not JSON
DecodeFails ==
    /\ reply.kind = "response"
    /\ IF handler = "generic" THEN DeclaresJson(reply)
       ELSE handler \in SpecificHandlers /\ Ok(reply)
    /\ ~JSONParse(reply.text).ok

\* C11: a network failure of the upstream call, a reply body that does not
\* decode as JSON and a failure to read the request's fields are each
\* answered by the handler's own catch block, with status 500 and a body
\* {error, message} carrying that handler's message; no upstream call
\* follows the exception: the request has made the one call that failed,
\* or none.
C11_ExceptionsCaught ==
    (Answered /\ (ReadFails \/ NetworkFails \/ DecodeFails))
    => /\ IsCaught(res)
       /\ res.body.f.message = Text(FailureMessage(handler))
       /\ calls = IF ReadFails THEN 0 ELSE 1

\* get-tasks gets a 200 reply that is not JSON and answers 500
C11_Witness ==
    /\ Answered
    /\ handler = "get-tasks"
    /\ DecodeFails
    /\ reply.text = <<"<", "html", ">">>
    /\ res.status = 500
    /\ calls = 1


\* C12: a request taken by a handler gets exactly one response: while the
\* handler awaits upstream none has been written, once the handler is done
\* exactly one has, and, the upstream call returning or failing, every
\* request that is being handled is eventually answered.
C12_ExactlyOneResponse ==
    /\ [](pc = "awaiting" => sent = 0 /\ res = NoRes)
    /\ [](pc = "done" => sent = 1 /\ res # NoRes)
    /\ (pc = "awaiting") ~> (pc = "done" /\ sent = 1)

\* the generic passthrough has answered a request whose upstream call failed
C12_Witness ==
    /\ pc = "done"
    /\ handler = "generic"
    /\ reply = FetchFailed
    /\ sent = 1
    /\ res.status = 500


HrHandlers == {"hr/get-tasks", "hr/get-projects"}

\* the request has every input its handler asks for: the credentials the
\* handler resolves (those of the environment on the hr routes) and the
\* fields of the operation, each a string
PassesValidation ==
    /\ handler \in CredentialHandlers \cup HrHandlers
    /\ IF handler \in HrHandlers
       THEN /\ Usable(env.HR_JIRA_SERVER_URL)
            /\ Usable(env.HR_JIRA_USERNAME)
            /\ Usable(env.HR_JIRA_API_TOKEN)
       ELSE /\ ~MissingAfterResolution(handler, req)
            /\ handler \in ExtractingHandlers => ResolvedUrl(handler, req) # Null
    /\ handler \in WorklogHandlers => Usable(Get(req.body, "issueKey"))
    /\ handler = "add-worklog" =>
          /\ Usable(Get(req.body, "timeSpent"))
          /\ InUnitOrder(Get(req.body, "timeSpent").s)
          /\ Get(req.body, "comment").t \in {"undefined", "string"}

ValidationErrors ==
    {MissingCredentials, MissingHRCredentials, MissingWorklogFields,
     MissingIssueKey, InvalidTimeFormat}

ResolvedBase ==
    IF handler \in HrHandlers THEN env.HR_JIRA_SERVER_URL.s
    ELSE IF handler \in ExtractingHandlers THEN ResolvedUrl(handler, req).s
    ELSE FromBody(req, "serverUrl").s

Anonymous(r) ==
    /\ r.body = Undef
    /\ DOMAIN r.headers.f = {}
    /\ DOMAIN r.query.f = {}

\* the Authorization header made of the credentials of the environment
EnvAuthorization == authHeader(env.HR_JIRA_USERNAME, env.HR_JIRA_API_TOKEN)

\* C14: no upstream call is authenticated with the credentials of the
\* environment (HR_JIRA_USERNAME, HR_JIRA_API_TOKEN) for a request whose
\* caller is not flagged as the internal consumer (stated for the requests
\* that carry no body, header or query parameter, and so no flag).
C14_EnvCredentialsOnlyWhenFlagged ==
    (call # NoCall /\ Anonymous(req))
    => call.authorization # EnvAuthorization


\* the credentials flight f authenticates its call with: those of the
\* environment on the hr routes, those its own request resolves elsewhere
OwnAuthorization(f) ==
    IF f.handler \in HrHandlers THEN EnvAuthorization
    ELSE authHeader(ResolvedBy(f.handler, f.req, "username"),
                    ResolvedBy(f.handler, f.req, "apiToken"))

\* C15: with several requests in flight, interleaved at the points where
\* their handlers await, each request is taken by the handler of its own
\* route, its upstream call is the one its own inputs give and carries its
\* own credentials, and its response is the one its handler gives for its
\* own upstream reply, whatever the other requests are and wherever they
\* stand.
C15_RequestsIndependent ==
    \A i \in 1..MaxInFlight :
        LET f == flights[i]
        IN  f.pc # "idle"
            => /\ f.handler = Route(f.req)
               /\ f.call = Start(f.req, env).call
               /\ f.call # NoCall => f.call.authorization = OwnAuthorization(f)
               /\ f.pc = "done"
                  => f.res = IF f.call = NoCall THEN Start(f.req, env).res
                             ELSE Finish(f.handler, f.reply)

\* two requests with different credentials were in flight together, got
\* different replies, and the second was answered while the first was
\* still reading its reply
C15_Witness ==
    /\ flights[1].pc = "reading"
    /\ flights[2].pc = "done"
    /\ flights[1].handler = "get-tasks"
    /\ flights[2].handler = "get-tasks"
    /\ flights[2].call # NoCall
    /\ flights[1].call.authorization # flights[2].call.authorization
    /\ flights[2].reply.kind = "response"
    /\ flights[1].reply.status = 200
    /\ flights[2].reply.status = 401
    /\ flights[2].res.status = 401


\* the specific routes: each is registered for POST on one path
SpecificRoutes ==
    { <<TestConnectionPath, "test-connection">>, <<HrGetTasksPath, "hr/get-tasks">>,
      <<GetTasksPath, "get-tasks">>, <<HrGetProjectsPath, "hr/get-projects">>,
      <<GetProjectsPath, "get-projects">>, <<AddWorklogPath, "add-worklog">>,
      <<GetWorklogsPath, "get-worklogs">> }

MatchesSpecific(r) ==
    r.method = "POST" /\ \E t \in SpecificRoutes : r.path = t[1]

UnderJira(r) == IsPrefix(JiraPrefix \o <<"/">>, r.path)

CheckedUsername ==
    IF handler \in HrHandlers THEN env.HR_JIRA_USERNAME
    ELSE ResolvedBy(handler, req, "username")

CheckedToken ==
    IF handler \in HrHandlers THEN env.HR_JIRA_API_TOKEN
    ELSE ResolvedBy(handler, req, "apiToken")

\* C17: every upstream call carries Authorization: Basic
\* base64(username ":" apiToken), made of the username and the token that
\* passed the credential check of its request, and the User-Agent
\* "JIRA-Proxy-Server/1.0".
C17_CallHeaders ==
    (call # NoCall)
    => /\ Usable(CheckedUsername)
       /\ Usable(CheckedToken)
       /\ call.authorization =
             [scheme |-> "Basic",
              base64 |-> CheckedUsername.s \o <<":">> \o CheckedToken.s]
       /\ call.userAgent = "JIRA-Proxy-Server/1.0"

\* a passthrough call made with credentials sent in the query string
C17_Witness ==
    /\ call # NoCall
    /\ handler = "generic"
    /\ req.method = "PUT"
    /\ OnlyInQuery(req)
    /\ call.authorization.base64 =
          FromQuery(req, "username").s \o <<":">> \o FromQuery(req, "apiToken").s
    /\ call.userAgent = "JIRA-Proxy-Server/1.0"


\* add-worklog has answered a non-2xx upstream reply
WorklogErrorAnswered ==
    /\ Answered
    /\ handler = "add-worklog"
    /\ reply.kind = "response"
    /\ ~Ok(reply)

\* the error field of v, else its errorMessages field, else the raw text
ErrorOf(v, text) ==
    IF Truthy(Get(v, "error")) THEN Get(v, "error")
    ELSE IF Truthy(Get(v, "errorMessages")) THEN Get(v, "errorMessages")
    ELSE Str(text)

\* C18: add-worklog answers a non-2xx upstream reply with the upstream
\* status; when the body parses as JSON, details is the parsed value and
\* error is its error field, else its errorMessages field, else the raw
\* text; when it does not parse, details is {error: raw text} and error is
\* the raw text.
C18_WorklogErrorBody ==
    WorklogErrorAnswered
    => LET parsed == JSONParse(reply.text)
       IN  /\ res.status = reply.status
           /\ Get(res.body, "details") =
                 IF parsed.ok THEN parsed.v ELSE Obj([error |-> Str(reply.text)])
           /\ Get(res.body, "error") =
                 IF parsed.ok THEN ErrorOf(parsed.v, reply.text) ELSE Str(reply.text)


\* the atoms of the apiToken the passthrough resolved for the request
TokenAtoms ==
    LET token == ResolvedBy("generic", req, "apiToken")
    IN  {token.s[i] : i \in DOMAIN token.s}

\* C19: the target URL and the body of a passthrough call do not contain
\* the client's apiToken, wherever the client put its credentials.
C19_TokenNotForwarded ==
    GenericCalled
    => /\ \A i \in DOMAIN call.url : call.url[i] \notin TokenAtoms
       /\ call.body.t = "object"
          => \A k \in DOMAIN call.body.f :
                call.body.f[k] # ResolvedBy("generic", req, "apiToken")

=============================================================================
